---- MODULE Spec2Model ----
(***************************************************************************)
(* Distributed training orchestration of                                   *)
(* helen/modules/python/models/train_distributed.py: one worker process    *)
(* per device runs setup() -> train() -> cleanup(); the workers meet at    *)
(* two dist.barrier() calls per epoch and, when the model is wrapped in    *)
(* DistributedDataParallel, at the gradient all-reduce of every backward.  *)
(***************************************************************************)
EXTENDS Integers, Sequences, FiniteSets, TLC

\* ---------------------------------------------------------------- bounds
MaxWorld == 2        \* largest len(device_ids)
DataSize == 2        \* len(train_data_set)
BatchSize == 1       \* batch_size
SeqLength == 2       \* ImageSizeOptions.SEQ_LENGTH (scaled down)
TrainWindow == 1     \* TrainOptions.TRAIN_WINDOW (scaled down)
WindowJump == 1      \* TrainOptions.WINDOW_JUMP (scaled down)
MaxEpochLimit == 11  \* largest epoch_limit argument
MaxPrevIte == 9      \* largest epoch value stored in a retrain checkpoint
MaxL == 6            \* windowing specification: largest sequence length
MaxW == 4            \* windowing specification: largest window size
MaxS == 3            \* windowing specification: largest stride
MaxWinEpochs == 2    \* windowing specification: largest epoch_limit
MaxData == 3         \* data specifications: largest len(train_data_set)
MaxBatch == 2        \* data specifications: largest batch_size
MaxPaths == 2        \* checkpoint specification: number of file names
MaxSaveEpoch == 1    \* checkpoint specification: largest epoch saved

\* ------------------------------------------------------ program constants
ES_EPOCH == 10       \* epoch + 1 >= 10
ES_ACCURACY == 98    \* stats['accuracy'] < 98

\* the argument values the runs are started with
EpochLimits == {1, MaxEpochLimit - 1, MaxEpochLimit}
PrevItes == {MaxPrevIte - 1, MaxPrevIte}
\* accuracies test() may report: just below and at the threshold
AccValues == {ES_ACCURACY - 1, ES_ACCURACY}
\* the spec's worked example of the window loop
ExampleGeometry == <<50, 20, 10>>

NoKey == -1          \* stats has no 'accuracy' entry

VARIABLES
    world_size, train_mode, gpu_mode, retrain_model, path_isfile, ckpt_epochs,
    epochs_arg, seq_length, train_window, window_jump,
    dataset_size, batch_size, perm, device_ids,
    pc, epoch, epoch_limit, batch_idx, win_i, starts, hidden_val, hidden_hist,
    graph, params, stats_acc, bar_calls, evals, files, early,
    parent, joined, destroys, device, shard, model_built, visited,
    total_loss, total_loss_base, total_loss_rle, total_images, batch_no,
    avg_loss, train_rows, grad_acc, ops, opt_steps, epoch_steps, ckpts,
    fs, fs0, last_save, save_pc, save_arg

config == <<world_size, train_mode, gpu_mode, retrain_model, path_isfile,
            ckpt_epochs, epochs_arg, seq_length, train_window, window_jump,
            dataset_size, batch_size, perm, device_ids>>

\* the state of save_best_model and of the files it writes
savevars == <<fs, fs0, last_save, save_pc, save_arg>>

\* the state of the workers and of train_distributed
trainvars == <<pc, epoch, epoch_limit, batch_idx, win_i, starts, hidden_val,
               hidden_hist, graph, params, stats_acc, bar_calls, evals, files,
               early, parent, joined, destroys, device, shard, model_built,
               visited, total_loss, total_loss_base, total_loss_rle,
               total_images, batch_no, avg_loss, train_rows, grad_acc, ops,
               opt_steps, epoch_steps, ckpts>>

vars == <<config, trainvars, savevars>>

Ranks == 0 .. (world_size - 1)

Terminal == {"done", "error", "exit1", "killed"}

CeilDiv(a, b) == (a + b - 1) \div b

Min(a, b) == IF a <= b THEN a ELSE b

\* DistributedSampler gives every rank ceil(M / N) indices; the DataLoader
\* cuts them into batches of batch_size, the last one possibly short
LenTrainLoader(M, N, bs) == CeilDiv(CeilDiv(M, N), bs)

\* DistributedSampler: the index list in the order of the seeded permutation
Indices == perm

\* a sampler that does not pad the index list
PaddedIndicesNoPad == Indices

\* DistributedSampler: the list is padded with its own head up to a multiple
\* of num_replicas
PaddedIndices ==
    [k \in 1 .. (CeilDiv(dataset_size, world_size) * world_size) |->
        Indices[((k - 1) % dataset_size) + 1]]

\* a sampler that is handed rank 0 on every worker
SamplerRankZero(r) == 0

\* rank=rank
SamplerRank(r) == r

\* DistributedSampler: indices[rank : total_size : num_replicas], with
\* num_replicas=world_size
Shard(r) ==
    LET padded == PaddedIndices
        picks == {k \in 1 .. Len(padded) :
                     (k - 1) % world_size = SamplerRank(r)}
    IN [j \in 1 .. Cardinality(picks) |->
           padded[(j - 1) * world_size + SamplerRank(r) + 1]]

\* len(train_loader) of the worker
NumBatches(r) == CeilDiv(Len(shard[r]), batch_size)

\* images.size(0) of the worker's b-th batch (b counted from 0)
BatchLen(r, b) == Min(batch_size, Len(shard[r]) - b * batch_size)

\* a worker that takes its rank for its device
DeviceForRank(r) == r

\* device_ids[rank]
DeviceFor(r) == device_ids[r + 1]

\* a logger test that forgets the rank
IsLoggerAnyRank(r) == train_mode

\* train_mode is True and rank == 0
IsLogger(r) == train_mode /\ r = 0

\* an evaluation that every rank runs
IsCoordinatorAnyRank(r) == TRUE

\* rank == 0 guards the evaluation
IsCoordinator(r) == r = 0

\* the model is wrapped in DistributedDataParallel only if gpu_mode
Wrapped == gpu_mode

\* a path test that ignores retrain_model
InvalidRetrainPathAlways == ~path_isfile

\* retrain_model is True and os.path.isfile(retrain_model_path) is False
InvalidRetrainPath == retrain_model /\ ~path_isfile

\* a limit that is extended in search mode as well
ExtendedLimitAnyMode ==
    IF retrain_model THEN ckpt_epochs + epochs_arg ELSE epochs_arg

\* if train_mode is True: epoch_limit = prev_ite + epoch_limit
ExtendedLimit ==
    IF retrain_model /\ train_mode THEN ckpt_epochs + epochs_arg
    ELSE epochs_arg

\* range(0, SEQ_LENGTH, WINDOW_JUMP) still yields i
InRange(i, L) == i < L

\* an overrun test that is off by one
OverrunsOffByOne(i, W, L) == i + W >= L

\* if i + TRAIN_WINDOW > SEQ_LENGTH: break
Overruns(i, W, L) == i + W > L

\* a hidden state that keeps its gradient history
NoDetach(hist) == hist

\* hidden.detach(): the value is kept, the gradient history is dropped
Detach(hist) == {}

\* an optimizer whose gradients are never cleared
ZeroGradNoOp(g) == g

\* model_optimizer.zero_grad()
ZeroGrad(g) == {}

\* the two criteria on the window that starts at i (both are >= 0)
LossBase(i) == i + 1
LossRle(i) == 1

\* an average without the guard against an empty epoch
AvgLossUnguarded(tl, ti) == <<tl, ti>>

\* (total_loss / total_images) if total_images else 0; a number is kept as
\* the pair <<numerator, denominator>>, 0 as <<0, 1>>
AvgLoss(tl, ti) == IF ti # 0 THEN <<tl, ti>> ELSE <<0, 1>>

\* a checkpoint name that carries the 0-based epoch
CkptNumberZeroBased(e) == e

\* "HELEN_epoch_" + str(epoch + 1) + "_checkpoint.pkl"
CkptNumber(e) == e + 1

\* gradient of the rank's own shard / of the all-reduce over every shard
LocalGrad(r) == r + 1
RECURSIVE SumGrad(_)
SumGrad(n) == IF n = 0 THEN 0 ELSE LocalGrad(n - 1) + SumGrad(n - 1)
AggGrad == SumGrad(world_size)

\* an early-stopping test on the 0-based epoch index
EarlyStopZeroBased(e, acc) == e >= ES_EPOCH /\ acc < ES_ACCURACY

\* epoch + 1 >= 10 and stats['accuracy'] < 98
EarlyStop(e, acc) == e + 1 >= ES_EPOCH /\ acc < ES_ACCURACY

\* a barrier that returns as soon as one worker has entered it
BarrierReadyAny == \E r \in Ranks : pc[r] \in {"wait1", "wait2"}

\* every worker of the group has entered the barrier
BarrierReady == \A r \in Ranks : pc[r] \in {"wait1", "wait2"}

\* every worker of the group has entered the gradient all-reduce
AllReduceReady == \A r \in Ranks : pc[r] = "sync"

\* ------------------------------------------------ checkpoint file model
\* a file is a flag and the sequence of objects pickled into it
Absent == [exists |-> FALSE, data |-> <<>>]

\* the dictionary save_best_model hands to ModelHandler.save_checkpoint
CheckpointDict(m, o, h, l, e) ==
    [model_state_dict |-> m, model_optimizer |-> o, hidden_size |-> h,
     gru_layers |-> l, epochs |-> e]

\* a checkpoint file left by an earlier run
OldFile == [exists |-> TRUE, data |-> <<CheckpointDict(9, 9, 9, 9, 9)>>]

\* a save that leaves the old file in place
NoRemove(f, p) == f

\* if os.path.isfile(file_name): os.remove(file_name)
RemoveIfFile(f, p) == IF f[p].exists THEN [f EXCEPT ![p] = Absent] ELSE f

\* ModelHandler.save_checkpoint(dict, file_name): a new file holds the
\* dictionary; what it does to a file that is already there is not fixed
\* here, the file is either replaced or extended
WriteOutcomes(old, d) ==
    IF old.exists
    THEN {[exists |-> TRUE, data |-> <<d>>],
          [exists |-> TRUE, data |-> Append(old.data, d)]}
    ELSE {[exists |-> TRUE, data |-> <<d>>]}

Paths == 1 .. MaxPaths

SaveInit ==
    /\ fs = [p \in Paths |-> Absent]
    /\ fs0 = fs
    /\ last_save = [p \in Paths |-> <<>>]
    /\ save_pc = "idle"
    /\ save_arg = <<>>

IdentityPerm(M) == [k \in 1 .. M |-> k - 1]

\* every order torch.randperm can give the M indices
Perms(M) == {p \in [1 .. M -> 0 .. (M - 1)] :
                \A a, b \in 1 .. M : p[a] = p[b] => a = b}

\* the devices in reverse order of the ranks
ReverseDevices(N) == [i \in 1 .. N |-> N - i]

WorkerInit(N) ==
    /\ pc = [r \in 0 .. (N - 1) |-> "spawned"]
    /\ epoch = [r \in 0 .. (N - 1) |-> 0]
    /\ epoch_limit = [r \in 0 .. (N - 1) |-> epochs_arg]
    /\ batch_idx = [r \in 0 .. (N - 1) |-> 0]
    /\ win_i = [r \in 0 .. (N - 1) |-> 0]
    /\ starts = [r \in 0 .. (N - 1) |-> <<>>]
    /\ hidden_val = [r \in 0 .. (N - 1) |-> 0]
    /\ hidden_hist = [r \in 0 .. (N - 1) |-> {}]
    /\ graph = [r \in 0 .. (N - 1) |-> {}]
    /\ params = [r \in 0 .. (N - 1) |-> 0]
    /\ stats_acc = [r \in 0 .. (N - 1) |-> NoKey]
    /\ bar_calls = [r \in 0 .. (N - 1) |-> 0]
    /\ evals = [r \in 0 .. (N - 1) |-> 0]
    /\ files = [r \in 0 .. (N - 1) |-> {}]
    /\ early = [r \in 0 .. (N - 1) |-> FALSE]
    /\ parent = "joining"
    /\ joined = [r \in 0 .. (N - 1) |-> FALSE]
    /\ destroys = [r \in 0 .. (N - 1) |-> 0]
    /\ device = [r \in 0 .. (N - 1) |-> -1]
    /\ shard = [r \in 0 .. (N - 1) |-> <<>>]
    /\ model_built = [r \in 0 .. (N - 1) |-> FALSE]
    /\ visited = [r \in 0 .. (N - 1) |-> <<>>]
    /\ total_loss = [r \in 0 .. (N - 1) |-> 0]
    /\ total_loss_base = [r \in 0 .. (N - 1) |-> 0]
    /\ total_loss_rle = [r \in 0 .. (N - 1) |-> 0]
    /\ total_images = [r \in 0 .. (N - 1) |-> 0]
    /\ batch_no = [r \in 0 .. (N - 1) |-> 0]
    /\ avg_loss = [r \in 0 .. (N - 1) |-> <<0, 1>>]
    /\ train_rows = [r \in 0 .. (N - 1) |-> <<>>]
    /\ grad_acc = [r \in 0 .. (N - 1) |-> {}]
    /\ ops = [r \in 0 .. (N - 1) |-> <<>>]
    /\ opt_steps = [r \in 0 .. (N - 1) |-> 0]
    /\ epoch_steps = [r \in 0 .. (N - 1) |-> 0]
    /\ ckpts = [r \in 0 .. (N - 1) |-> <<>>]

\* train_distributed(): mp.spawn starts len(device_ids) workers that all get
\* the same argument tuple
Init ==
    /\ world_size \in 1 .. MaxWorld
    /\ train_mode \in BOOLEAN
    /\ gpu_mode \in BOOLEAN
    /\ retrain_model \in BOOLEAN
    /\ path_isfile \in BOOLEAN
    /\ retrain_model = FALSE => path_isfile = FALSE
    /\ ckpt_epochs \in IF retrain_model /\ path_isfile THEN PrevItes ELSE {0}
    /\ epochs_arg \in EpochLimits
    /\ seq_length = SeqLength
    /\ train_window = TrainWindow
    /\ window_jump = WindowJump
    /\ dataset_size = DataSize
    /\ batch_size = BatchSize
    /\ perm = IdentityPerm(dataset_size)
    /\ device_ids = ReverseDevices(world_size)
    /\ WorkerInit(world_size)
    /\ SaveInit

\* groups of worker variables, for the UNCHANGED clauses
loopvars == <<batch_idx, win_i, starts, hidden_val, hidden_hist, graph,
              params, grad_acc, ops, opt_steps, epoch_steps>>
accvars == <<total_loss, total_loss_base, total_loss_rle, total_images,
             batch_no, avg_loss>>
effvars == <<stats_acc, bar_calls, evals, files, early, visited, train_rows,
             ckpts>>
lifevars == <<parent, joined, destroys, device, shard, model_built>>

\* setup(): dist.init_process_group, then train() is entered with
\* device_ids[rank]
Setup(r) ==
    /\ pc[r] = "spawned"
    /\ joined' = [joined EXCEPT ![r] = TRUE]
    /\ device' = [device EXCEPT ![r] = DeviceFor(r)]
    /\ pc' = [pc EXCEPT ![r] = "open"]
    /\ UNCHANGED <<config, savevars, epoch, epoch_limit, loopvars, accvars,
                   effvars, parent, destroys, shard, model_built>>

\* train(): the three log files are opened for writing
OpenLogs(r) ==
    /\ pc[r] = "open"
    /\ files' = [files EXCEPT ![r] =
                   IF IsLogger(r) THEN @ \cup {"open"} ELSE @]
    /\ pc' = [pc EXCEPT ![r] = "data"]
    /\ UNCHANGED <<config, savevars, epoch, epoch_limit, loopvars, accvars,
                   lifevars, stats_acc, bar_calls, evals, early, visited,
                   train_rows, ckpts>>

\* train(): the data set, the DistributedSampler and the DataLoader
LoadData(r) ==
    /\ pc[r] = "data"
    /\ shard' = [shard EXCEPT ![r] = Shard(r)]
    /\ pc' = [pc EXCEPT ![r] = "load"]
    /\ UNCHANGED <<config, savevars, epoch, epoch_limit, loopvars, accvars,
                   effvars, parent, joined, destroys, device, model_built>>

\* train(): the model is loaded or built, the epoch range is fixed
LoadModel(r) ==
    /\ pc[r] = "load"
    /\ IF InvalidRetrainPath
       THEN /\ pc' = [pc EXCEPT ![r] = "exit1"]
            /\ UNCHANGED <<epoch, epoch_limit, model_built>>
       ELSE /\ epoch' = [epoch EXCEPT ![r] =
                           IF retrain_model THEN ckpt_epochs ELSE 0]
            /\ epoch_limit' = [epoch_limit EXCEPT ![r] = ExtendedLimit]
            /\ model_built' = [model_built EXCEPT ![r] = TRUE]
            /\ pc' = [pc EXCEPT ![r] = "epoch"]
    /\ UNCHANGED <<config, savevars, loopvars, accvars, effvars, parent,
                   joined, destroys, device, shard>>

\* for epoch in range(start_epoch, epoch_limit, 1): head of one iteration,
\* or the return after the loop
EpochHead(r) ==
    /\ pc[r] = "epoch"
    /\ IF epoch[r] < epoch_limit[r]
       THEN /\ pc' = [pc EXCEPT ![r] = "batch"]
            /\ visited' = [visited EXCEPT ![r] = Append(@, epoch[r])]
            /\ total_loss_base' = [total_loss_base EXCEPT ![r] = 0]
            /\ total_loss_rle' = [total_loss_rle EXCEPT ![r] = 0]
            /\ total_loss' = [total_loss EXCEPT ![r] = 0]
            /\ total_images' = [total_images EXCEPT ![r] = 0]
            /\ batch_no' = [batch_no EXCEPT ![r] = 1]
            /\ batch_idx' = [batch_idx EXCEPT ![r] = 0]
            /\ epoch_steps' = [epoch_steps EXCEPT ![r] = 0]
            /\ bar_calls' = [bar_calls EXCEPT ![r] = 0]
            /\ evals' = [evals EXCEPT ![r] = 0]
       ELSE /\ pc' = [pc EXCEPT ![r] = "cleanup"]
            /\ UNCHANGED <<visited, total_loss_base, total_loss_rle,
                           total_loss, total_images, batch_no, batch_idx,
                           epoch_steps, bar_calls, evals>>
    /\ UNCHANGED <<config, savevars, epoch, epoch_limit, lifevars, win_i,
                   starts, hidden_val, hidden_hist, graph, params, grad_acc,
                   ops, opt_steps, avg_loss, stats_acc, files, early,
                   train_rows, ckpts>>

\* for images, label_base, label_rle in train_loader: the next batch is
\* loaded and hidden is set to zeros, or the loader is exhausted
BatchHead(r) ==
    /\ pc[r] = "batch"
    /\ IF batch_idx[r] < NumBatches(r)
       THEN /\ pc' = [pc EXCEPT ![r] = "window"]
            /\ win_i' = [win_i EXCEPT ![r] = 0]
            /\ starts' = [starts EXCEPT ![r] = <<>>]
            /\ opt_steps' = [opt_steps EXCEPT ![r] = 0]
            /\ hidden_val' = [hidden_val EXCEPT ![r] = 0]
            /\ hidden_hist' = [hidden_hist EXCEPT ![r] = {}]
       ELSE /\ pc' = [pc EXCEPT ![r] = "bar1"]
            /\ UNCHANGED <<win_i, starts, opt_steps, hidden_val, hidden_hist>>
    /\ UNCHANGED <<config, savevars, epoch, epoch_limit, lifevars, accvars,
                   effvars, batch_idx, graph, params, grad_acc, ops,
                   epoch_steps>>

\* for i in range(0, SEQ_LENGTH, WINDOW_JUMP): zero_grad, the overrun test,
\* the slices, the forward pass on the carried hidden state and the loss
WindowHead(r) ==
    /\ pc[r] = "window"
    /\ IF InRange(win_i[r], seq_length)
       THEN /\ grad_acc' = [grad_acc EXCEPT ![r] = ZeroGrad(@)]
            /\ IF ~Overruns(win_i[r], train_window, seq_length)
               THEN /\ graph' = [graph EXCEPT ![r] =
                                   hidden_hist[r] \cup {win_i[r]}]
                    /\ hidden_hist' = [hidden_hist EXCEPT ![r] =
                                         @ \cup {win_i[r]}]
                    /\ hidden_val' = [hidden_val EXCEPT ![r] = @ + 1]
                    /\ starts' = [starts EXCEPT ![r] = Append(@, win_i[r])]
                    /\ ops' = [ops EXCEPT ![r] =
                                 <<"zero_grad", "forward", "loss">>]
                    /\ pc' = [pc EXCEPT ![r] = "bwd"]
               ELSE /\ ops' = [ops EXCEPT ![r] = <<"zero_grad">>]
                    /\ pc' = [pc EXCEPT ![r] = "batchend"]
                    /\ UNCHANGED <<graph, hidden_hist, hidden_val, starts>>
       ELSE /\ pc' = [pc EXCEPT ![r] = "batchend"]
            /\ UNCHANGED <<grad_acc, ops, graph, hidden_hist, hidden_val,
                           starts>>
    /\ UNCHANGED <<config, savevars, epoch, epoch_limit, lifevars, accvars,
                   effvars, batch_idx, win_i, params, opt_steps, epoch_steps>>

\* loss.backward(): the gradients of the window's loss are added to the
\* parameters' gradients; under DistributedDataParallel the worker enters
\* the gradient all-reduce
Backward(r) ==
    /\ pc[r] = "bwd"
    /\ grad_acc' = [grad_acc EXCEPT ![r] = @ \cup {win_i[r]}]
    /\ ops' = [ops EXCEPT ![r] = Append(@, "backward")]
    /\ pc' = [pc EXCEPT ![r] = IF Wrapped THEN "sync" ELSE "step"]
    /\ UNCHANGED <<config, savevars, epoch, epoch_limit, lifevars, accvars,
                   effvars, batch_idx, win_i, starts, hidden_val, hidden_hist,
                   graph, params, opt_steps, epoch_steps>>

\* the all-reduce completes once every worker of the group has entered it
AllReduce ==
    /\ Wrapped
    /\ AllReduceReady
    /\ pc' = [r \in Ranks |-> IF pc[r] = "sync" THEN "step" ELSE pc[r]]
    /\ UNCHANGED <<config, savevars, epoch, epoch_limit, lifevars, accvars,
                   effvars, loopvars>>

\* model_optimizer.step(), the accumulators, hidden = hidden.detach()
Step(r) ==
    /\ pc[r] = "step"
    /\ params' = [params EXCEPT ![r] =
                    @ + (IF Wrapped THEN AggGrad ELSE LocalGrad(r))]
    /\ opt_steps' = [opt_steps EXCEPT ![r] = @ + 1]
    /\ epoch_steps' = [epoch_steps EXCEPT ![r] = @ + 1]
    /\ total_loss' = [total_loss EXCEPT ![r] =
                        @ + (LossBase(win_i[r]) + LossRle(win_i[r]))]
    /\ total_loss_base' = [total_loss_base EXCEPT ![r] =
                             @ + LossBase(win_i[r])]
    /\ total_loss_rle' = [total_loss_rle EXCEPT ![r] = @ + LossRle(win_i[r])]
    /\ total_images' = [total_images EXCEPT ![r] =
                          @ + BatchLen(r, batch_idx[r])]
    /\ hidden_hist' = [hidden_hist EXCEPT ![r] = Detach(@)]
    /\ ops' = [ops EXCEPT ![r] = @ \o <<"step", "detach">>]
    /\ win_i' = [win_i EXCEPT ![r] = @ + window_jump]
    /\ pc' = [pc EXCEPT ![r] = "window"]
    /\ UNCHANGED <<config, savevars, epoch, epoch_limit, lifevars, effvars,
                   batch_idx, starts, hidden_val, graph, grad_acc, batch_no,
                   avg_loss>>

\* end of the batch body: avg_loss, the train_loss.csv row, the progress bar
\* and batch_no
BatchEnd(r) ==
    /\ pc[r] = "batchend"
    /\ avg_loss' = [avg_loss EXCEPT ![r] =
                      AvgLoss(total_loss[r], total_images[r])]
    /\ train_rows' = [train_rows EXCEPT ![r] =
                        IF IsLogger(r)
                        THEN Append(@, <<epoch[r] + 1, batch_no[r],
                                         AvgLoss(total_loss[r],
                                                 total_images[r])>>)
                        ELSE @]
    /\ files' = [files EXCEPT ![r] =
                   IF IsLogger(r) THEN @ \cup {"train_row"} ELSE @]
    /\ batch_no' = [batch_no EXCEPT ![r] = IF r = 0 THEN @ + 1 ELSE @]
    /\ batch_idx' = [batch_idx EXCEPT ![r] = @ + 1]
    /\ pc' = [pc EXCEPT ![r] = "batch"]
    /\ UNCHANGED <<config, savevars, epoch, epoch_limit, lifevars, win_i,
                   starts, hidden_val, hidden_hist, graph, params, grad_acc,
                   ops, opt_steps, epoch_steps, total_loss, total_loss_base,
                   total_loss_rle, total_images, stats_acc, bar_calls, evals,
                   early, visited, ckpts>>

\* the first dist.barrier() of the epoch is called
Barrier1(r) ==
    /\ pc[r] = "bar1"
    /\ bar_calls' = [bar_calls EXCEPT ![r] = @ + 1]
    /\ pc' = [pc EXCEPT ![r] = "wait1"]
    /\ UNCHANGED <<config, savevars, epoch, epoch_limit, lifevars, accvars,
                   loopvars, stats_acc, evals, files, early, visited,
                   train_rows, ckpts>>

\* a barrier returns on every worker once all of them have called it
BarrierRelease ==
    /\ BarrierReady
    /\ pc' = [r \in Ranks |-> IF pc[r] = "wait1" THEN "eval"
                              ELSE IF pc[r] = "wait2" THEN "post"
                              ELSE pc[r]]
    /\ UNCHANGED <<config, savevars, epoch, epoch_limit, lifevars, accvars,
                   loopvars, effvars>>

\* if rank == 0: test(...) and the stats entries
EvalStep(r) ==
    /\ pc[r] = "eval"
    /\ IF IsCoordinator(r)
       THEN /\ \E a \in AccValues : stats_acc' = [stats_acc EXCEPT ![r] = a]
            /\ evals' = [evals EXCEPT ![r] = @ + 1]
       ELSE UNCHANGED <<stats_acc, evals>>
    /\ pc' = [pc EXCEPT ![r] = "bar2"]
    /\ UNCHANGED <<config, savevars, epoch, epoch_limit, lifevars, accvars,
                   loopvars, bar_calls, files, early, visited, train_rows,
                   ckpts>>

\* the second dist.barrier() of the epoch is called
Barrier2(r) ==
    /\ pc[r] = "bar2"
    /\ bar_calls' = [bar_calls EXCEPT ![r] = @ + 1]
    /\ pc' = [pc EXCEPT ![r] = "wait2"]
    /\ UNCHANGED <<config, savevars, epoch, epoch_limit, lifevars, accvars,
                   loopvars, stats_acc, evals, files, early, visited,
                   train_rows, ckpts>>

\* "update the loggers": checkpoint and log rows on the logger, the
\* early-stopping test in search mode, then the next iteration
PostEpoch(r) ==
    /\ pc[r] = "post"
    /\ IF IsLogger(r)
       THEN /\ files' = [files EXCEPT ![r] =
                           @ \cup {"ckpt", "test_row", "cm_row", "flush"}]
            /\ ckpts' = [ckpts EXCEPT ![r] = Append(@, CkptNumber(epoch[r]))]
            /\ epoch' = [epoch EXCEPT ![r] = @ + 1]
            /\ pc' = [pc EXCEPT ![r] = "epoch"]
            /\ UNCHANGED early
       ELSE IF train_mode = FALSE /\ epoch[r] + 1 >= ES_EPOCH
                                  /\ stats_acc[r] = NoKey
       THEN \* stats['accuracy'] raises KeyError
            /\ pc' = [pc EXCEPT ![r] = "error"]
            /\ UNCHANGED <<files, ckpts, epoch, early>>
       ELSE IF train_mode = FALSE /\ EarlyStop(epoch[r], stats_acc[r])
       THEN /\ early' = [early EXCEPT ![r] = TRUE]
            /\ pc' = [pc EXCEPT ![r] = "cleanup"]
            /\ UNCHANGED <<files, ckpts, epoch>>
       ELSE /\ epoch' = [epoch EXCEPT ![r] = @ + 1]
            /\ pc' = [pc EXCEPT ![r] = "epoch"]
            /\ UNCHANGED <<files, ckpts, early>>
    /\ UNCHANGED <<config, savevars, epoch_limit, lifevars, accvars, loopvars,
                   stats_acc, bar_calls, evals, visited, train_rows>>

\* cleanup(): dist.destroy_process_group()
Cleanup(r) ==
    /\ pc[r] = "cleanup"
    /\ destroys' = [destroys EXCEPT ![r] = @ + 1]
    /\ pc' = [pc EXCEPT ![r] = "done"]
    /\ UNCHANGED <<config, savevars, epoch, epoch_limit, accvars, loopvars,
                   effvars, parent, joined, device, shard, model_built>>

\* mp.spawn(..., join=True): once a worker has failed, the workers that are
\* still alive are terminated
SpawnKill(r) ==
    /\ pc[r] \notin Terminal
    /\ \E q \in Ranks : pc[q] \in {"error", "exit1"}
    /\ pc' = [pc EXCEPT ![r] = "killed"]
    /\ UNCHANGED <<config, savevars, epoch, epoch_limit, lifevars, accvars,
                   loopvars, effvars>>

\* mp.spawn(..., join=True) in the parent: it returns once every worker has
\* exited, and raises if one of them failed
ParentJoin ==
    /\ parent = "joining"
    /\ \A r \in Ranks : pc[r] \in Terminal
    /\ parent' = IF \A r \in Ranks : pc[r] = "done" THEN "returned"
                 ELSE "raised"
    /\ UNCHANGED <<config, savevars, pc, epoch, epoch_limit, accvars,
                   loopvars, effvars, joined, destroys, device, shard,
                   model_built>>

Next ==
    \/ \E r \in Ranks : Setup(r)
    \/ \E r \in Ranks : OpenLogs(r)
    \/ \E r \in Ranks : LoadData(r)
    \/ \E r \in Ranks : LoadModel(r)
    \/ \E r \in Ranks : EpochHead(r)
    \/ \E r \in Ranks : BatchHead(r)
    \/ \E r \in Ranks : WindowHead(r)
    \/ \E r \in Ranks : Backward(r)
    \/ AllReduce
    \/ \E r \in Ranks : Step(r)
    \/ \E r \in Ranks : BatchEnd(r)
    \/ \E r \in Ranks : Barrier1(r)
    \/ BarrierRelease
    \/ \E r \in Ranks : EvalStep(r)
    \/ \E r \in Ranks : Barrier2(r)
    \/ \E r \in Ranks : PostEpoch(r)
    \/ \E r \in Ranks : Cleanup(r)
    \/ \E r \in Ranks : SpawnKill(r)
    \/ ParentJoin

Spec == Init /\ [][Next]_vars

\* ------------------------------------------------- the window loop alone
\* one worker, in either mode, over every window geometry and batch size
InitWin ==
    /\ world_size = 1
    /\ train_mode \in BOOLEAN
    /\ gpu_mode = FALSE
    /\ retrain_model = FALSE
    /\ path_isfile = FALSE
    /\ ckpt_epochs = 0
    /\ epochs_arg \in 1 .. MaxWinEpochs
    /\ \E g \in ((0 .. MaxL) \X (1 .. MaxW) \X (1 .. MaxS))
                    \cup {ExampleGeometry} :
          /\ seq_length = g[1]
          /\ train_window = g[2]
          /\ window_jump = g[3]
    /\ dataset_size \in 1 .. MaxData
    /\ batch_size \in 1 .. MaxBatch
    /\ perm = IdentityPerm(dataset_size)
    /\ device_ids = ReverseDevices(world_size)
    /\ WorkerInit(world_size)
    /\ SaveInit

NextWin ==
    \/ \E r \in Ranks : Setup(r)
    \/ \E r \in Ranks : OpenLogs(r)
    \/ \E r \in Ranks : LoadData(r)
    \/ \E r \in Ranks : LoadModel(r)
    \/ \E r \in Ranks : EpochHead(r)
    \/ \E r \in Ranks : BatchHead(r)
    \/ \E r \in Ranks : WindowHead(r)
    \/ \E r \in Ranks : Backward(r)
    \/ \E r \in Ranks : Step(r)
    \/ \E r \in Ranks : BatchEnd(r)
    \/ \E r \in Ranks : Barrier1(r)
    \/ BarrierRelease
    \/ \E r \in Ranks : EvalStep(r)
    \/ \E r \in Ranks : Barrier2(r)
    \/ \E r \in Ranks : PostEpoch(r)
    \/ \E r \in Ranks : Cleanup(r)
    \/ ParentJoin

SpecWin == InitWin /\ [][NextWin]_vars

\* ------------------------------------------------- the data partition alone
\* search mode over every data set size, batch size and number
\* of workers
NextData ==
    \/ \E r \in Ranks : Setup(r)
    \/ \E r \in Ranks : OpenLogs(r)
    \/ \E r \in Ranks : LoadData(r)
    \/ \E r \in Ranks : LoadModel(r)
    \/ \E r \in Ranks : EpochHead(r)
    \/ \E r \in Ranks : BatchHead(r)
    \/ \E r \in Ranks : WindowHead(r)
    \/ \E r \in Ranks : Backward(r)
    \/ AllReduce
    \/ \E r \in Ranks : Step(r)
    \/ \E r \in Ranks : BatchEnd(r)
    \/ \E r \in Ranks : Barrier1(r)
    \/ BarrierRelease
    \/ \E r \in Ranks : EvalStep(r)
    \/ \E r \in Ranks : Barrier2(r)
    \/ \E r \in Ranks : PostEpoch(r)
    \/ \E r \in Ranks : Cleanup(r)
    \/ ParentJoin

\* every order of the indices, wrapped model
InitShard ==
    /\ world_size \in 1 .. MaxWorld
    /\ train_mode = FALSE
    /\ gpu_mode = TRUE
    /\ retrain_model = FALSE
    /\ path_isfile = FALSE
    /\ ckpt_epochs = 0
    /\ epochs_arg \in 1 .. MaxWinEpochs
    /\ seq_length = SeqLength
    /\ train_window = TrainWindow
    /\ window_jump = WindowJump
    /\ dataset_size \in 0 .. MaxData
    /\ batch_size = BatchSize
    /\ perm \in Perms(dataset_size)
    /\ device_ids = ReverseDevices(world_size)
    /\ WorkerInit(world_size)
    /\ SaveInit

SpecShard == InitShard /\ [][NextData]_vars

\* every batch size, wrapped or not
InitData ==
    /\ world_size \in 1 .. MaxWorld
    /\ train_mode = FALSE
    /\ gpu_mode \in BOOLEAN
    /\ retrain_model = FALSE
    /\ path_isfile = FALSE
    /\ ckpt_epochs = 0
    /\ epochs_arg = 1
    /\ seq_length = SeqLength
    /\ train_window = TrainWindow
    /\ window_jump = WindowJump
    /\ dataset_size \in 0 .. MaxData
    /\ batch_size \in 1 .. MaxBatch
    /\ perm = IdentityPerm(dataset_size)
    /\ device_ids = ReverseDevices(world_size)
    /\ WorkerInit(world_size)
    /\ SaveInit

SpecData == InitData /\ [][NextData]_vars

\* ------------------------------------------------- save_best_model alone
\* if os.path.isfile(file_name): os.remove(file_name)
SaveBegin(p, d) ==
    /\ save_pc = "idle"
    /\ fs' = RemoveIfFile(fs, p)
    /\ save_arg' = <<p, d>>
    /\ save_pc' = "write"
    /\ UNCHANGED <<config, trainvars, fs0, last_save>>

\* ModelHandler.save_checkpoint({...}, file_name)
SaveWrite ==
    /\ save_pc = "write"
    /\ \E c \in WriteOutcomes(fs[save_arg[1]], save_arg[2]) :
          fs' = [fs EXCEPT ![save_arg[1]] = c]
    /\ last_save' = [last_save EXCEPT ![save_arg[1]] = <<save_arg[2]>>]
    /\ save_arg' = <<>>
    /\ save_pc' = "idle"
    /\ UNCHANGED <<config, trainvars, fs0>>

\* no worker is running; the files may be there from an earlier run
InitSave ==
    /\ world_size = 1
    /\ train_mode = TRUE
    /\ gpu_mode = FALSE
    /\ retrain_model = FALSE
    /\ path_isfile = FALSE
    /\ ckpt_epochs = 0
    /\ epochs_arg = 1
    /\ seq_length = SeqLength
    /\ train_window = TrainWindow
    /\ window_jump = WindowJump
    /\ dataset_size = DataSize
    /\ batch_size = BatchSize
    /\ perm = IdentityPerm(dataset_size)
    /\ device_ids = ReverseDevices(world_size)
    /\ WorkerInit(world_size)
    /\ fs \in [Paths -> {Absent, OldFile}]
    /\ fs0 = fs
    /\ last_save = [p \in Paths |-> <<>>]
    /\ save_pc = "idle"
    /\ save_arg = <<>>

NextSave ==
    \/ \E p \in Paths, m \in 0 .. 1, o \in 0 .. 1, e \in 0 .. MaxSaveEpoch :
          SaveBegin(p, CheckpointDict(m, o, 2, 1, e))
    \/ SaveWrite

SpecSave == InitSave /\ [][NextSave]_vars

\* ------------------------------------------------------------ vocabulary
\* the worker is inside the body of the epoch loop
InLoop(r) == pc[r] \in {"batch", "window", "bwd", "sync", "step", "batchend",
                        "bar1", "wait1", "eval", "bar2", "wait2", "post"}

\* the worker has loaded a batch of its current epoch and is training on it
InBatch(r) == pc[r] \in {"window", "bwd", "sync", "step", "batchend"}

StartEpoch == IF retrain_model THEN ckpt_epochs ELSE 0

\* ------------------------------------------------------------------ C1
\* C1: every rank makes exactly two barrier calls per epoch (one after its
\* batches, one after the evaluation) and all ranks make the same number of
\* calls in each epoch: no rank makes a barrier call in an epoch in which a
\* rank that has already stopped made fewer.
C1_BarrierCallsIdentical ==
    /\ \A r \in Ranks :
          /\ pc[r] \in {"batch", "window", "bwd", "sync", "step", "batchend",
                        "bar1"} => bar_calls[r] = 0
          /\ pc[r] \in {"wait1", "eval", "bar2"} => bar_calls[r] = 1
          /\ pc[r] \in {"wait2", "post"} => bar_calls[r] = 2
    /\ \A r, q \in Ranks :
          (InLoop(r) /\ bar_calls[r] > 0 /\ pc[q] \in Terminal)
             => \/ epoch[q] > epoch[r]
                \/ epoch[q] = epoch[r] /\ bar_calls[q] >= bar_calls[r]

\* ------------------------------------------------------------------ C2
\* C2: once rank 0 has taken the early-stopping return after epoch e, no
\* other rank has failed or been terminated, and none is in a later epoch:
\* every rank leaves train() after epoch e as well.
C2_EarlyStopConsistent ==
    (0 \in Ranks /\ early[0]) =>
        \A r \in Ranks : /\ pc[r] \notin {"error", "killed"}
                         /\ epoch[r] <= epoch[0]

C4_EvalBracketed ==
    /\ \A r \in Ranks : evals[r] <= 1 /\ (r # 0 => evals[r] = 0)
    /\ pc[0] = "eval" =>
          \A r \in Ranks : /\ epoch[r] = epoch[0]
                           /\ pc[r] \in {"eval", "bar2", "wait2"}
    /\ pc[0] \in {"bar2", "wait2", "post"} => evals[0] = 1
    /\ \A r \in Ranks :
          (InLoop(r) /\ epoch[r] > StartEpoch) =>
              \/ epoch[0] >= epoch[r]
              \/ epoch[0] = epoch[r] - 1 /\ pc[0] = "post" /\ evals[0] = 1

C4_Witness ==
    /\ world_size >= 2
    /\ pc[0] = "eval"
    /\ epoch[0] > StartEpoch
    /\ \E r \in Ranks \ {0} : pc[r] = "wait2"

\* ------------------------------------------------------------------ C5
\* C5: when rank 0 leaves the end of epoch n (1-based), it takes the early
\* return, keeping epoch, parameters and stats, exactly if train_mode is
\* False, n >= 10 and the accuracy is < 98; otherwise it goes on to the next
\* iteration; and it returns without early stop only at the epoch limit.
C5_EarlyStopIff ==
    /\ [][(pc[0] = "post" /\ pc'[0] \notin {"post", "killed"}) =>
            IF ~train_mode /\ epoch[0] + 1 >= 10 /\ stats_acc[0] < 98
            THEN /\ early'[0]
                 /\ pc'[0] = "cleanup"
                 /\ epoch'[0] = epoch[0]
                 /\ params'[0] = params[0]
                 /\ stats_acc'[0] = stats_acc[0]
            ELSE /\ ~early'[0]
                 /\ pc'[0] = "epoch"
                 /\ epoch'[0] = epoch[0] + 1]_vars
    /\ []((pc[0] \in {"cleanup", "done"} /\ ~early[0])
             => epoch[0] >= epoch_limit[0])
    /\ [](train_mode => ~early[0])

C5_Witness ==
    /\ early[0]
    /\ epoch[0] + 1 = 10
    /\ stats_acc[0] = 97
    /\ epoch_limit[0] > 10

\* ------------------------------------------------------------------ C6
\* C6: a rank that is about to evaluate the early-stopping condition on
\* stats['accuracy'] (search mode, epoch + 1 >= 10) has an accuracy stored in
\* its own stats.
C6_AccuracyReadOnlyWhereStored ==
    \A r \in Ranks :
        (pc[r] = "post" /\ ~train_mode /\ epoch[r] + 1 >= ES_EPOCH)
            => stats_acc[r] # NoKey

\* ------------------------------------------------------------------ C7
\* C7: two ranks at the start of the same window (same epoch, batch and
\* window start) hold identical parameters.
C7_ReplicasIdentical ==
    \A r, q \in Ranks :
        (/\ pc[r] = "window" /\ pc[q] = "window"
         /\ epoch[r] = epoch[q]
         /\ batch_idx[r] = batch_idx[q]
         /\ win_i[r] = win_i[q])
            => params[r] = params[q]

\* ------------------------------------------------------------------ C8
\* the window starts 0, S, 2S, ... with start + W <= L, in increasing order
NumWindows(L, W, S) == IF W > L THEN 0 ELSE ((L - W) \div S) + 1
ExpectedStarts(L, W, S) == [k \in 1 .. NumWindows(L, W, S) |-> (k - 1) * S]

\* C8: when the window loop of a batch has ended, the processed windows are
\* exactly the starts 0, S, 2S, ... with start + W <= L in increasing order;
\* every processed slice lies within [0, L); and L=50, W=20, S=10 gives the
\* four starts 0, 10, 20, 30.
C8_Windowing ==
    \A r \in Ranks :
        /\ \A k \in 1 .. Len(starts[r]) :
              starts[r][k] >= 0 /\ starts[r][k] + train_window <= seq_length
        /\ pc[r] = "batchend" =>
              /\ starts[r] = ExpectedStarts(seq_length, train_window,
                                            window_jump)
              /\ <<seq_length, train_window, window_jump>> = <<50, 20, 10>>
                    => starts[r] = <<0, 10, 20, 30>>

C8_Witness ==
    /\ <<seq_length, train_window, window_jump>> = <<50, 20, 10>>
    /\ pc[0] = "batchend"
    /\ Len(starts[0]) = 4

\* ------------------------------------------------------------------ C9
\* C9: hidden is zero at the first window of a batch; its value is carried
\* from window to window; at the start of a window it has no gradient
\* history, so the graph a backward pass traverses is that window alone.
C9_BackwardSpansOneWindow ==
    \A r \in Ranks :
        /\ (pc[r] = "window" /\ win_i[r] = 0) => hidden_val[r] = 0
        /\ pc[r] = "window" =>
              hidden_hist[r] = {} /\ hidden_val[r] = Len(starts[r])
        /\ pc[r] \in {"bwd", "sync", "step"} =>
              graph[r] = {win_i[r]} /\ hidden_val[r] = Len(starts[r])

C9_Witness ==
    \E r \in Ranks :
        /\ pc[r] = "bwd"
        /\ win_i[r] > 0
        /\ hidden_val[r] = 2
        /\ batch_idx[r] > 0 \/ epoch[r] > StartEpoch

\* ----------------------------------------------------------------- C10
\* C10: a rank that has opened, written or flushed a log file or saved a
\* checkpoint is rank 0 in train mode.
C10_OnlyLoggerTouchesFiles ==
    \A r \in Ranks : files[r] # {} => (r = 0 /\ train_mode)

C10_Witness ==
    /\ world_size >= 2
    /\ files[0] = {"open", "train_row", "ckpt", "test_row", "cm_row", "flush"}
    /\ \E r \in Ranks \ {0} : pc[r] = "done"


\* C11: in train mode rank 0, and only rank 0, saves one checkpoint per
\* completed epoch e under the number e + 1: once its model is there, its
\* checkpoints are numbered StartEpoch + 1 .. epoch[0] without gap or
\* repetition, a finished run has left one per epoch of its range, and every
\* save is taken after the second barrier and the evaluation of the epoch
\* and before the next iteration is started
C11_CheckpointPerEpoch ==
    /\ [](train_mode =>
            /\ \A r \in Ranks : r # 0 => ckpts[r] = <<>>
            /\ ~model_built[0] => ckpts[0] = <<>>
            /\ model_built[0] =>
                  ckpts[0] = [k \in 1 .. (epoch[0] - StartEpoch) |->
                                 StartEpoch + k]
            /\ pc[0] = "done" =>
                  Len(ckpts[0]) = epoch_limit[0] - StartEpoch)
    /\ [][\A r \in Ranks :
             ckpts'[r] # ckpts[r] =>
                /\ train_mode /\ r = 0
                /\ pc[r] = "post" /\ bar_calls[r] = 2 /\ evals[r] = 1
                /\ ckpts'[r] = Append(ckpts[r], epoch[r] + 1)
                /\ pc'[r] = "epoch" /\ epoch'[r] = epoch[r] + 1
                /\ Len(visited'[r]) = Len(visited[r])]_vars

\* a resumed train run of two workers has finished and left its checkpoints
C11_Witness ==
    /\ train_mode /\ retrain_model /\ world_size = 2
    /\ pc[0] = "done" /\ pc[1] = "done"
    /\ Len(ckpts[0]) >= 2

\* ------------------------------------------------------------------ C12
\* C12: whenever save_best_model is not in the middle of a save, a path it
\* has saved to holds exactly one file whose only content is the dictionary
\* of the last save to that path (model state, optimizer state, hidden size,
\* layer count and epoch as passed), with nothing left of an earlier file,
\* and a path it has not saved to is as it was before; while a save is
\* under way this holds for every path but the one being saved
C12_OverwriteLeavesLastSave ==
    \A p \in Paths :
        \/ save_pc = "write" /\ p = save_arg[1]
        \/ /\ last_save[p] = <<>>
           /\ fs[p] = fs0[p]
        \/ /\ last_save[p] # <<>>
           /\ fs[p].exists
           /\ Len(fs[p].data) = 1
           /\ fs[p].data = last_save[p]
           /\ fs[p].data[1].hidden_size = 2
           /\ fs[p].data[1].gru_layers = 1
           /\ fs[p].data[1].epochs \in 0 .. MaxSaveEpoch
           /\ fs[p].data[1].model_state_dict \in 0 .. 1
           /\ fs[p].data[1].model_optimizer \in 0 .. 1

\* a save onto a file of an earlier run has completed, next to a file that
\* was not saved to
C12_Witness ==
    /\ save_pc = "idle"
    /\ \E p, q \in Paths :
          /\ p # q
          /\ fs0[p] = OldFile /\ last_save[p] # <<>>
          /\ fs[p].data = last_save[p]
          /\ fs0[q] = OldFile /\ last_save[q] = <<>> /\ fs[q] = OldFile

\* ------------------------------------------------------------------ C13
\* the worker has built its sampler
Loaded(r) == pc[r] \notin {"spawned", "open", "data"}

\* the places <<rank, position>> at which index i occurs in the shards
Places(i) == {x \in Ranks \X (1 .. dataset_size) :
                 x[2] <= Len(shard[x[1]]) /\ shard[x[1]][x[2]] = i}

\* the number of places that hold an index some other place holds already
RECURSIVE Repeats(_)
Repeats(M) == IF M = 0 THEN 0
              ELSE (Cardinality(Places(M - 1)) - 1) + Repeats(M - 1)

\* C13: the shard of rank r is fixed by the rank, the number of workers and
\* the seeded order of the indices - its j-th entry is entry
\* ((j - 1) * N + r) mod M of that order - and it is the same in every
\* epoch; all shards have ceil(M / N) entries; once every worker has built
\* its sampler, every index of the data set is in some shard and at most
\* N - 1 entries repeat an index that is assigned already
C13_ShardsPartition ==
    /\ [](/\ \A r \in Ranks : Loaded(r) =>
                /\ Len(shard[r]) = (dataset_size + world_size - 1)
                                       \div world_size
                /\ \A j \in 1 .. Len(shard[r]) :
                      shard[r][j] =
                         perm[(((j - 1) * world_size + r) % dataset_size) + 1]
          /\ (\A r \in Ranks : Loaded(r)) =>
                /\ \A i \in 0 .. (dataset_size - 1) : Places(i) # {}
                /\ \A r \in Ranks : \A j \in 1 .. Len(shard[r]) :
                      shard[r][j] \in 0 .. (dataset_size - 1)
                /\ Repeats(dataset_size) <= world_size - 1
                /\ world_size = 1 => Repeats(dataset_size) = 0)
    /\ [][\A r \in Ranks : Loaded(r) => shard'[r] = shard[r]]_vars

\* two workers have shared three shuffled indices, one of them twice, and
\* have finished a second epoch on them
C13_Witness ==
    /\ world_size = 2 /\ dataset_size = 3 /\ perm # IdentityPerm(3)
    /\ pc[0] = "done" /\ pc[1] = "done"
    /\ Len(visited[0]) = 2
    /\ \E i \in 0 .. 2 : Cardinality(Places(i)) = 2
    /\ Repeats(dataset_size) = 1

\* ------------------------------------------------------------------ C14
\* C14: a worker ends with exit code 1 only when retrain_model is set and
\* the path is not a file, and it has then built no model, entered no
\* epoch, trained on no window, called no barrier, run no evaluation and
\* saved no checkpoint; with retrain_model set and the path not a file no
\* worker ever builds a model or enters the epoch loop, and the step that
\* tests the path ends the worker at once; without retrain_model no worker
\* ever ends with exit code 1
C14_InvalidRetrainPathExits ==
    /\ [](\A r \in Ranks :
            /\ pc[r] = "exit1" =>
                  /\ retrain_model /\ ~path_isfile
                  /\ ~model_built[r]
                  /\ visited[r] = <<>> /\ ops[r] = <<>> /\ starts[r] = <<>>
                  /\ opt_steps[r] = 0 /\ params[r] = 0
                  /\ bar_calls[r] = 0 /\ evals[r] = 0 /\ ckpts[r] = <<>>
            /\ (retrain_model /\ ~path_isfile) =>
                  /\ ~model_built[r]
                  /\ pc[r] \in {"spawned", "open", "data", "load", "exit1",
                                "killed"}
            /\ ~retrain_model => pc[r] # "exit1")
    /\ [][\A r \in Ranks :
             (pc[r] = "load" /\ pc'[r] # pc[r] /\ pc'[r] # "killed") =>
                (pc'[r] = "exit1") = (retrain_model /\ ~path_isfile)]_vars

\* both workers of a run have ended on the invalid path
C14_Witness ==
    /\ world_size = 2 /\ retrain_model /\ ~path_isfile
    /\ pc[0] = "exit1" /\ pc[1] = "exit1"

\* ------------------------------------------------------------------ C15
\* C15: there is one worker for each entry of device_ids, with the ranks
\* 0 .. len(device_ids) - 1, and the worker of rank r is given
\* device_ids[r]; a worker has joined the process group before it does
\* anything in train(); it destroys the group at most once, and exactly once
\* when train() has returned, at the end of the range or on early stopping;
\* the parent returns only when every worker has completed, and it leaves
\* the join only when every worker has ended
C15_SpawnAndLifecycle ==
    /\ [](/\ world_size = Len(device_ids)
          /\ DOMAIN pc = 0 .. (Len(device_ids) - 1)
          /\ \A r \in Ranks :
                /\ pc[r] \notin {"spawned", "killed"} =>
                      joined[r] /\ device[r] = device_ids[r + 1]
                /\ (InLoop(r) \/ model_built[r] \/ shard[r] # <<>>
                      \/ files[r] # {}) => joined[r]
                /\ destroys[r] \in {0, 1}
                /\ destroys[r] = 1 <=> pc[r] = "done"
                /\ (pc[r] = "done" /\ ~early[r]) =>
                      epoch[r] = epoch_limit[r] \/ epoch[r] > epoch_limit[r]
          /\ parent = "returned" =>
                \A r \in Ranks : pc[r] = "done" /\ destroys[r] = 1
          /\ parent # "joining" => \A r \in Ranks : pc[r] \in Terminal)
    /\ [][\A r \in Ranks :
             /\ destroys'[r] # destroys[r] =>
                   pc[r] = "cleanup" /\ pc'[r] = "done"
             /\ (joined'[r] /\ ~joined[r]) => pc[r] = "spawned"]_vars

\* the parent has returned from a run of two workers on the devices <<1, 0>>,
\* each of which has left train() at the end of its range and destroyed the
\* group
C15_Witness ==
    /\ world_size = 2 /\ parent = "returned"
    /\ device[0] = 1 /\ device[1] = 0
    /\ destroys[0] = 1 /\ destroys[1] = 1
    /\ Len(visited[0]) >= 1 /\ Len(visited[1]) >= 1

\* ------------------------------------------------------------------ C16
\* the steps taken for one processed window, in order
WindowOps == <<"zero_grad", "forward", "loss", "backward", "step", "detach">>

\* C16: for a processed window the worker clears the gradients, runs the
\* forward pass on the hidden state carried from the windows before, adds
\* the two losses, runs backward, takes one optimizer step and detaches the
\* hidden state, in this order; at the optimizer step the gradients are
\* those of the current window alone; the optimizer steps of a batch are as
\* many as its processed windows; and no forward, backward or optimizer step
\* is taken for a window that overruns the sequence
C16_WindowStepOrder ==
    /\ [](\A r \in Ranks :
            /\ total_loss[r] = total_loss_base[r] + total_loss_rle[r]
            /\ pc[r] = "bwd" =>
                  /\ ops[r] = SubSeq(WindowOps, 1, 3)
                  /\ grad_acc[r] = {}
                  /\ hidden_val[r] = Len(starts[r])
            /\ pc[r] \in {"sync", "step"} =>
                  /\ ops[r] = SubSeq(WindowOps, 1, 4)
                  /\ grad_acc[r] = {win_i[r]}
            /\ pc[r] \in {"bwd", "sync", "step"} =>
                  /\ win_i[r] + train_window <= seq_length
                  /\ opt_steps[r] = Len(starts[r]) - 1
                  /\ starts[r][Len(starts[r])] = win_i[r]
            /\ (pc[r] = "window" /\ win_i[r] > 0) =>
                  ops[r] = WindowOps /\ hidden_hist[r] = {}
            /\ pc[r] \in {"window", "batchend"} =>
                  opt_steps[r] = Len(starts[r])
            /\ pc[r] = "batchend" =>
                  /\ opt_steps[r] =
                        (IF train_window > seq_length THEN 0
                         ELSE ((seq_length - train_window) \div window_jump)
                                 + 1)
                  /\ ops[r] \in {<<>>, <<"zero_grad">>, WindowOps})
    /\ [][\A r \in Ranks :
             /\ opt_steps'[r] > opt_steps[r] =>
                   /\ opt_steps'[r] = opt_steps[r] + 1
                   /\ grad_acc[r] = {win_i[r]}
                   /\ ops[r] = SubSeq(WindowOps, 1, 4)
                   /\ ops'[r] = WindowOps
                   /\ win_i[r] + train_window <= seq_length
             /\ (pc[r] = "window" /\ pc'[r] = "batchend") =>
                   /\ opt_steps'[r] = opt_steps[r]
                   /\ params'[r] = params[r]
                   /\ hidden_val'[r] = hidden_val[r]]_vars

\* the optimizer is about to step on the gradients of the second window of
\* a batch whose third window would overrun
C16_Witness ==
    /\ pc[0] = "step"
    /\ opt_steps[0] = 1 /\ win_i[0] > 0
    /\ grad_acc[0] = {win_i[0]}
    /\ win_i[0] + window_jump < seq_length
    /\ win_i[0] + window_jump + train_window > seq_length

\* ------------------------------------------------------------------ C17
\* the number of images in the first b batches of a worker
RECURSIVE ImagesBefore(_)
ImagesBefore(b) ==
    IF b = 0 THEN 0
    ELSE LET len == (dataset_size + world_size - 1) \div world_size
             rest == len - (b - 1) * batch_size
         IN ImagesBefore(b - 1)
               + (IF batch_size <= rest THEN batch_size ELSE rest)

\* the loss that the windows of one batch add up to
LossOfBatch ==
    LET n == NumWindows(seq_length, train_window, window_jump)
    IN (window_jump * ((n * (n - 1)) \div 2)) + 2 * n

\* the train_loss.csv row written after the b-th batch of epoch e
ExpectedRow(e, b) ==
    LET n == NumWindows(seq_length, train_window, window_jump)
    IN <<e + 1, b,
         IF n * ImagesBefore(b) = 0 THEN <<0, 1>>
         ELSE <<b * LossOfBatch, n * ImagesBefore(b)>> >>

\* C17: within an epoch the accumulators hold what the windows processed
\* since the start of that epoch have added - total_images the size of the
\* batch once per processed window - so they start every epoch at 0 and
\* only grow within it; in train mode rank 0 has written one train_loss.csv
\* row per finished batch, "epoch + 1, batch_no, avg_loss" with batch_no
\* counting from 1 in every epoch and avg_loss the quotient of the epoch's
\* total_loss and total_images, or 0 when no window has been processed;
\* no other worker writes a row
C17_AccumulatorsAndTrainLog ==
    /\ [](\A r \in Ranks :
            LET n == NumWindows(seq_length, train_window, window_jump)
                nb == (((dataset_size + world_size - 1) \div world_size)
                          + batch_size - 1) \div batch_size
                cur == ImagesBefore(batch_idx[r] + 1)
                          - ImagesBefore(batch_idx[r])
            IN /\ InBatch(r) =>
                     /\ total_images[r] =
                           n * ImagesBefore(batch_idx[r]) + opt_steps[r] * cur
                     /\ total_loss[r] >= batch_idx[r] * LossOfBatch
                     /\ total_loss[r] <= (batch_idx[r] + 1) * LossOfBatch
               /\ pc[r] \in {"batch", "batchend"} =>
                     /\ total_images[r] =
                           n * ImagesBefore(batch_idx[r]
                                  + (IF pc[r] = "batchend" THEN 1 ELSE 0))
                     /\ total_loss[r] =
                           (batch_idx[r]
                              + (IF pc[r] = "batchend" THEN 1 ELSE 0))
                             * LossOfBatch
               /\ (InLoop(r) /\ r = 0) => batch_no[r] = batch_idx[r] + 1
               /\ ~(train_mode /\ r = 0) => train_rows[r] = <<>>
               /\ (train_mode /\ r = 0) =>
                     /\ visited[r] = <<>> => train_rows[r] = <<>>
                     /\ (visited[r] # <<>> /\ pc[r] # "killed") =>
                           Len(train_rows[r]) =
                              (Len(visited[r]) - 1) * nb + batch_idx[r]
                     /\ \A k \in 1 .. Len(train_rows[r]) :
                           train_rows[r][k] =
                              ExpectedRow(StartEpoch + ((k - 1) \div nb),
                                          ((k - 1) % nb) + 1))
    /\ [][\A r \in Ranks :
             /\ Len(visited'[r]) > Len(visited[r]) =>
                   /\ total_loss'[r] = 0 /\ total_loss_base'[r] = 0
                   /\ total_loss_rle'[r] = 0 /\ total_images'[r] = 0
                   /\ batch_no'[r] = 1
             /\ Len(visited'[r]) = Len(visited[r]) =>
                   /\ total_loss'[r] >= total_loss[r]
                   /\ total_loss_base'[r] >= total_loss_base[r]
                   /\ total_loss_rle'[r] >= total_loss_rle[r]
                   /\ total_images'[r] >= total_images[r]
                   /\ (total_images'[r] # total_images[r]
                         \/ total_loss'[r] # total_loss[r]) =>
                         opt_steps'[r] = opt_steps[r] + 1
             /\ train_rows'[r] # train_rows[r] =>
                   /\ pc[r] = "batchend" /\ pc'[r] = "batch"
                   /\ Len(train_rows'[r]) = Len(train_rows[r]) + 1
                   /\ SubSeq(train_rows'[r], 1, Len(train_rows[r]))
                         = train_rows[r]]_vars

\* rank 0 is in the second epoch of a train run, has written the row of a
\* short last batch, and the window loop processes no window at all
C17_Witness ==
    /\ train_mode /\ Len(visited[0]) = 2
    /\ train_window > seq_length
    /\ dataset_size = 3 /\ batch_size = 2
    /\ Len(train_rows[0]) = 4
    /\ train_rows[0][4] = <<2, 2, <<0, 1>>>>

\* ------------------------------------------------------------------ C18
\* C18: all workers have shards of one length and so the same number of
\* batches, ceil(ceil(M / N) / batch_size); a worker that has left the batch
\* loop of an epoch has run that many batches and that many times the number
\* of processed windows optimizer steps; a gradient all-reduce completes
\* only with every worker in it, all in the same epoch and after the same
\* number of optimizer steps; and no worker is at the first barrier of the
\* epoch while another one waits in an all-reduce
C18_EqualBatchesAndSteps ==
    /\ [](LET nb == (((dataset_size + world_size - 1) \div world_size)
                        + batch_size - 1) \div batch_size
              n == NumWindows(seq_length, train_window, window_jump)
          IN /\ \A r, q \in Ranks :
                   /\ (InLoop(r) /\ InLoop(q)) =>
                         Len(shard[r]) = Len(shard[q])
                   /\ pc[r] \in {"bar1", "wait1"} => pc[q] # "sync"
             /\ \A r \in Ranks :
                   /\ InLoop(r) => batch_idx[r] <= nb
                   /\ pc[r] \in {"bar1", "wait1", "eval", "bar2", "wait2",
                                 "post"} =>
                         batch_idx[r] = nb /\ epoch_steps[r] = nb * n)
    /\ [][\A r \in Ranks :
             (pc[r] = "sync" /\ pc'[r] = "step") =>
                \A q \in Ranks :
                   /\ pc[q] = "sync" /\ pc'[q] = "step"
                   /\ epoch[q] = epoch[r]
                   /\ epoch_steps[q] = epoch_steps[r]
                   /\ batch_idx[q] = batch_idx[r]
                   /\ win_i[q] = win_i[r]]_vars

\* two workers share three items, one of them taken twice, and both wait at
\* the first barrier after the same number of all-reduce rounds
C18_Witness ==
    /\ world_size = 2 /\ dataset_size = 3 /\ batch_size = 1 /\ gpu_mode
    /\ pc[0] = "wait1" /\ pc[1] = "wait1"
    /\ epoch_steps[0] = epoch_steps[1] /\ epoch_steps[0] > 0
    /\ Len(shard[1]) = 2

\* ------------------------------------------------------------------ C19
\* C19: the epochs a worker has entered are start, start + 1, ... in
\* increasing order without gaps, all below the limit, with start 0 for a
\* new model and the epoch value of the checkpoint on retrain; a worker that
\* returns at the end of the range has entered every epoch of it; the limit
\* is the epoch_limit argument, plus the checkpoint's epoch value in train
\* mode with retrain, so that such a run enters exactly epoch_limit epochs;
\* in search mode with retrain the limit is the argument itself and no epoch
\* is entered when the checkpoint's epoch value has reached it
C19_EpochRange ==
    \A r \in Ranks :
        LET start == IF retrain_model THEN ckpt_epochs ELSE 0
            limit == IF retrain_model /\ train_mode
                     THEN ckpt_epochs + epochs_arg ELSE epochs_arg
        IN /\ visited[r] = [k \in 1 .. Len(visited[r]) |-> start + (k - 1)]
           /\ \A k \in 1 .. Len(visited[r]) : visited[r][k] < limit
           /\ model_built[r] => epoch_limit[r] = limit
           /\ InLoop(r) => epoch[r] = visited[r][Len(visited[r])]
           /\ (pc[r] = "done" /\ ~early[r]) =>
                 Len(visited[r]) = (IF limit > start THEN limit - start ELSE 0)
           /\ (pc[r] = "done" /\ train_mode /\ retrain_model) =>
                 Len(visited[r]) = epochs_arg
           /\ (~train_mode /\ retrain_model /\ ckpt_epochs >= epochs_arg) =>
                 visited[r] = <<>>

\* a resumed train run has returned after as many epochs as it was asked
\* for, the first of them the one the checkpoint names
C19_Witness ==
    /\ train_mode /\ retrain_model /\ world_size = 2
    /\ pc[1] = "done"
    /\ epochs_arg > 1 /\ Len(visited[1]) = epochs_arg
    /\ visited[1][1] = ckpt_epochs /\ ckpt_epochs > 0

\* ------------------------------------------------------------------ C20
\* C20: a worker that has ended with exit code 1 on an invalid retrain path
\* has changed no file: it has not opened train_loss.csv, test_loss.csv or
\* confusion_matrix.txt for writing, and has written no row and no
\* checkpoint
C20_NoFileChangeOnExit1 ==
    \A r \in Ranks :
        pc[r] = "exit1" =>
            files[r] = {} /\ train_rows[r] = <<>> /\ ckpts[r] = <<>>

====
